---- MODULE Spec2Model ----
(***************************************************************************)
(* Model of the Synchron voice front end (src/unnamed/part_000, the App    *)
(* component): the session/connection controller (toggleConnection,        *)
(* startConnection and the onopen / onmessage / onerror / onclose          *)
(* callbacks) and the playback scheduler (nextStartTimeRef, sourcesRef,    *)
(* stopAllAudio, the 'ended' listener).                                    *)
(*                                                                         *)
(* Time is counted in whole ticks of the output context's clock.  An await *)
(* of the source ends an action.  After `await getUserMedia` and `await    *)
(* sessionPromise` other callbacks run before the handler resumes.  After  *)
(* `await decodeAudioData` none does: decodeAudioData (lines 15-31) awaits *)
(* nothing, so the rest of onmessage is a microtask that runs before any   *)
(* other handler or event.  The output context's clock is advanced by the  *)
(* audio rendering thread, not by the event loop: it may advance at any    *)
(* point, between the two halves of onmessage included.                    *)
(***************************************************************************)
EXTENDS Integers, Sequences, FiniteSets, TLC

\* ------------------------------------------------------------- bounds
MaxStarts  == 2   \* startConnection() invocations in one run
MaxContent == 2   \* audio chunks and transcription fragments received in one run
MaxClock   == 1   \* ticks the output clock advances in one context
MaxSent    == 1   \* realtime-input messages one script processor sends
MaxBytes   == 4   \* length of a byte sequence given to a helper function
MaxSamples == 2   \* length of a float sample block given to createBlob
MaxOff     == 2   \* float samples tried on each side of -2, -1, 0, 1 and 2

Durs   == {1, 2}      \* durations (ticks) of decoded audio buffers
Starts == 1..MaxStarts

\* error message values: null, the onerror text, the text set by the catch block
NoError   == "null"
LinkError == "Communication link severed. Please retry."
InitError == "Failed to initialize Synchron interface."

VARIABLES
  isConnected,    \* useState(false)                              part_000:43
  isSpeaking,     \* useState(false)                              part_000:45
  error,          \* useState<string|null>(null)                  part_000:46
  transcript,     \* useState(''): number of fragments appended   part_000:47
  audioContexts,  \* audioContexts.current: 0 = null, i = the contexts made by start i
  sessionRef,     \* sessionRef.current: 0 = null, i = the session of start i
  nextStartTime,  \* nextStartTimeRef.current                     part_000:57
  sourcesRef,     \* sourcesRef.current: set of unit ids          part_000:58
  units,          \* every AudioBufferSourceNode created so far, by id
  clock,          \* audioContexts.current.output.currentTime
  pc,             \* position of each startConnection() invocation
  ws,             \* transport state of the session each invocation opened
  capture,        \* capture[i]: the script processor of start i is attached
  pending,        \* onmessage invocations suspended at `await decodeAudioData`
  lastEnd,        \* history: the scheduled end of the unit the previous audio chunk
                  \* became, -1 once stopAllAudio ran or a chunk failed to decode
  teardown,       \* history: the last stop/close/error since the last manual start
  replacedClock,  \* replacedClock[c]: currentTime of the output context of start
                  \* c once audioContexts.current no longer names it (it is not
                  \* closed and keeps running); -1 for any other c
  sent,           \* sent[i]: session.sendRealtimeInput calls made by the
                  \* script processor of start i (lines 111-117)
  codec           \* a call of one of the helper functions of lines 5-40 and
                  \* 68-78 on its own: its arguments and what it returned

vars == << isConnected, isSpeaking, error, transcript, audioContexts, sessionRef,
           nextStartTime, sourcesRef, units, clock, pc, ws, capture, pending,
           lastEnd, teardown, replacedClock, sent, codec >>

Max(a, b) == IF a >= b THEN a ELSE b

\* ------------------------------------------------ the component's state
\* The React state and the refs the handlers read and write, as one record,
\* so that a handler is the composition of its statements.
App ==
  [ isConnected   |-> isConnected,
    isSpeaking    |-> isSpeaking,
    error         |-> error,
    transcript    |-> transcript,
    nextStartTime |-> nextStartTime,
    sourcesRef    |-> sourcesRef,
    units         |-> units ]

Commit(s) ==
  /\ isConnected'   = s.isConnected
  /\ isSpeaking'    = s.isSpeaking
  /\ error'         = s.error
  /\ transcript'    = s.transcript
  /\ nextStartTime' = s.nextStartTime
  /\ sourcesRef'    = s.sourcesRef
  /\ units'         = s.units

\* ------------------------------------------------------------ stopAllAudio
\* stopAllAudio without line 65: the cursor is not reset
StopAllAudio_NoReset(s) ==
  [ s EXCEPT
      !.units = [ u \in DOMAIN s.units |->
                    IF u \in s.sourcesRef /\ s.units[u].state = "scheduled"
                    THEN [ s.units[u] EXCEPT !.state = "stopped" ]
                    ELSE s.units[u] ],
      !.sourcesRef = {} ]

\* source.stop() on every source of the set (a stopped source dispatches its
\* 'ended' event later: the listener of line 135 is never removed), then
\* clear the set and reset the cursor.
StopAllAudio(s) ==
  [ s EXCEPT
      !.units = [ u \in DOMAIN s.units |->
                    IF u \in s.sourcesRef /\ s.units[u].state = "scheduled"
                    THEN [ s.units[u] EXCEPT !.state = "stopped" ]
                    ELSE s.units[u] ],
      !.sourcesRef = {},
      !.nextStartTime = 0 ]

\* no helper function is being followed on its own
NoCall == [ fn |-> "none" ]

Init ==
  /\ isConnected = FALSE
  /\ isSpeaking = FALSE
  /\ error = NoError
  /\ transcript = 0
  /\ audioContexts = 0
  /\ sessionRef = 0
  /\ nextStartTime = 0
  /\ sourcesRef = {}
  /\ units = << >>
  /\ clock = 0
  /\ pc = [ i \in Starts |-> "unused" ]
  /\ ws = [ i \in Starts |-> "none" ]
  /\ capture = [ i \in Starts |-> FALSE ]
  /\ pending = << >>
  /\ lastEnd = -1
  /\ teardown = "none"
  /\ replacedClock = [ i \in Starts |-> -1 ]
  /\ sent = [ i \in Starts |-> 0 ]
  /\ codec = NoCall

\* ------------------------------------------------------- toggleConnection
UsedStarts == { i \in Starts : pc[i] # "unused" }

\* no onmessage invocation is suspended at `await decodeAudioData`: its
\* continuation is a microtask, and every other handler waits for it (the
\* clock of the audio thread does not)
NoMicrotask == pending = << >>

\* session.close(): an open transport starts its closing handshake
CloseSession(w, i) ==
  IF i # 0 /\ w[i] = "open" THEN [ w EXCEPT ![i] = "closing" ] ELSE w

\* toggleConnection, isConnected branch (lines 175-178)
ToggleConnectionStop ==
  /\ NoMicrotask
  /\ isConnected
  /\ LET s1 == [ App EXCEPT !.isConnected = FALSE ]
         s2 == StopAllAudio(s1)
     IN  Commit(s2)
  /\ ws' = CloseSession(ws, sessionRef)
  /\ pending' = pending
  /\ lastEnd' = -1
  /\ teardown' = "stop"
  /\ UNCHANGED << replacedClock, sent, codec, audioContexts, sessionRef, clock, pc, capture >>

\* toggleConnection, else branch: startConnection() up to its first await
\* (lines 179-180, 80-83)
ToggleConnectionStart ==
  /\ NoMicrotask
  /\ ~isConnected
  /\ Cardinality(UsedStarts) < MaxStarts
  /\ LET i == Cardinality(UsedStarts) + 1
     IN  pc' = [ pc EXCEPT ![i] = "getUserMedia" ]
  /\ error' = NoError
  /\ teardown' = "none"
  /\ UNCHANGED << replacedClock, sent, codec, isConnected, isSpeaking, transcript, audioContexts, sessionRef,
                  nextStartTime, sourcesRef, units, clock, ws, capture, pending,
                  lastEnd >>

ToggleConnection == ToggleConnectionStop \/ ToggleConnectionStart

\* ------------------------------------------------------- startConnection
\* line 91 replaces audioContexts.current: the output context it named keeps
\* its time and keeps running
Replaced(f) ==
  IF audioContexts = 0 THEN f ELSE [ f EXCEPT ![audioContexts] = clock ]

\* currentTime of the output context made by start c
ContextTime(c) == IF c = audioContexts THEN clock ELSE replacedClock[c]

\* getUserMedia resolved: the contexts are created (a new output context
\* starts its clock at 0) and ai.live.connect is called (lines 85-165)
GetUserMediaResolved(i) ==
  /\ NoMicrotask
  /\ pc[i] = "getUserMedia"
  /\ audioContexts' = i
  /\ clock' = 0
  /\ replacedClock' = Replaced(replacedClock)
  /\ ws' = [ ws EXCEPT ![i] = "connecting" ]
  /\ pc' = [ pc EXCEPT ![i] = "connect" ]
  /\ UNCHANGED << sent, codec, isConnected, isSpeaking, error, transcript, sessionRef,
                  nextStartTime, sourcesRef, units, capture, pending,
                  lastEnd, teardown >>

\* line 170 without the fallback text
CatchMessage_NoFallback(msg) == msg

\* err.message || 'Failed to initialize Synchron interface.' (line 170)
CatchMessage(msg) == IF msg = "" THEN InitError ELSE msg

ErrMessages == { "", "Permission denied" }

\* getUserMedia rejected: control passes to the catch block (lines 168-171)
GetUserMediaRejected(i) ==
  /\ NoMicrotask
  /\ pc[i] = "getUserMedia"
  /\ \E msg \in ErrMessages : error' = CatchMessage(msg)
  /\ pc' = [ pc EXCEPT ![i] = "failed" ]
  /\ UNCHANGED << replacedClock, sent, codec, isConnected, isSpeaking, transcript, audioContexts, sessionRef,
                  nextStartTime, sourcesRef, units, clock, ws, capture, pending,
                  lastEnd, teardown >>

\* getUserMedia resolved and a statement of lines 85-93 throws (an
\* AudioContext or the GoogleGenAI client cannot be constructed), before or
\* after line 91 has set audioContexts.current: control passes to the catch
\* block (lines 168-171)
SetupThrows(i) ==
  /\ NoMicrotask
  /\ pc[i] = "getUserMedia"
  /\ \E assigned \in BOOLEAN :
       IF assigned
       THEN /\ audioContexts' = i
            /\ clock' = 0
            /\ replacedClock' = Replaced(replacedClock)
       ELSE UNCHANGED << audioContexts, clock, replacedClock >>
  /\ \E msg \in ErrMessages : error' = CatchMessage(msg)
  /\ pc' = [ pc EXCEPT ![i] = "failed" ]
  /\ UNCHANGED << sent, codec, isConnected, isSpeaking, transcript, sessionRef,
                  nextStartTime, sourcesRef, units, ws, capture, pending,
                  lastEnd, teardown >>

\* `await sessionPromise` (line 167) rejects: control passes to the catch
\* block (lines 168-171); sessionRef.current is not assigned
SessionRejected(i) ==
  /\ NoMicrotask
  /\ pc[i] = "connect"
  /\ \E msg \in ErrMessages : error' = CatchMessage(msg)
  /\ pc' = [ pc EXCEPT ![i] = "failed" ]
  /\ UNCHANGED << replacedClock, sent, codec, isConnected, isSpeaking, transcript,
                  audioContexts, sessionRef, nextStartTime, sourcesRef, units,
                  clock, ws, capture, pending, lastEnd, teardown >>

\* `sessionRef.current = await sessionPromise` resumes once the session has
\* opened (line 167)
SessionResolved(i) ==
  /\ NoMicrotask
  /\ pc[i] = "connect"
  /\ capture[i]
  /\ sessionRef' = i
  /\ pc' = [ pc EXCEPT ![i] = "done" ]
  /\ UNCHANGED << replacedClock, sent, codec, isConnected, isSpeaking, error, transcript, audioContexts,
                  nextStartTime, sourcesRef, units, clock, ws, capture, pending,
                  lastEnd, teardown >>

\* ------------------------------------------------------------- callbacks
\* onopen (lines 106-121)
OnOpen(i) ==
  /\ NoMicrotask
  /\ ws[i] = "connecting"
  /\ ws' = [ ws EXCEPT ![i] = "open" ]
  /\ isConnected' = TRUE
  /\ capture' = [ capture EXCEPT ![i] = TRUE ]
  /\ UNCHANGED << replacedClock, sent, codec, isSpeaking, error, transcript, audioContexts, sessionRef,
                  nextStartTime, sourcesRef, units, clock, pc, pending,
                  lastEnd, teardown >>

\* what the onerror callback does to the component's state (lines 156-160)
OnErrorEffect(s) == [ s EXCEPT !.error = LinkError, !.isConnected = FALSE ]

\* onerror: the transport has failed
OnError(i) ==
  /\ NoMicrotask
  /\ ws[i] \in { "connecting", "open", "closing" }
  /\ ws' = [ ws EXCEPT ![i] = "errored" ]
  /\ Commit(OnErrorEffect(App))
  /\ teardown' = "error"
  /\ UNCHANGED << replacedClock, sent, codec, audioContexts, sessionRef, clock, pc, capture, pending,
                  lastEnd >>

\* onclose (lines 161-163): the transport has closed
OnClose(i) ==
  /\ NoMicrotask
  /\ ws[i] \in { "open", "closing", "errored" }
  /\ ws' = [ ws EXCEPT ![i] = "closed" ]
  /\ isConnected' = FALSE
  /\ teardown' = "close"
  /\ UNCHANGED << replacedClock, sent, codec, isSpeaking, error, transcript, audioContexts, sessionRef,
                  nextStartTime, sourcesRef, units, clock, pc, capture, pending,
                  lastEnd >>

\* ------------------------------------------------------------- onmessage
\* A LiveServerMessage: audio = 0 when it carries no inline audio, else the
\* duration of the buffer it decodes to; decodable = FALSE when decode /
\* decodeAudioData throws on the payload; text: it carries an
\* outputTranscription; interrupted: it carries the interruption flag.
\* (the handler of an undecodable payload throws before it reads the other
\* two parts, so they are left out of such a message)
Messages ==
  { m \in [ audio : {0} \cup Durs, decodable : BOOLEAN, text : BOOLEAN,
            interrupted : BOOLEAN ] :
      /\ m.audio = 0 => m.decodable
      /\ ~m.decodable => ~m.text /\ ~m.interrupted }

\* line 129 without the Math.max: the cursor is used as it is
StartAt_NoClamp(cursor, now) == cursor

\* Math.max(nextStartTimeRef.current, output.currentTime) (line 129)
StartAt(cursor, now) == Max(cursor, now)

\* lines 128-129: line 127, setIsSpeaking(true), left out
BeginAudio_NoFlag(s, now) ==
  [ s EXCEPT !.nextStartTime = StartAt(s.nextStartTime, now) ]

\* lines 127-129: the part of the audio branch before the await
BeginAudio(s, now) ==
  [ s EXCEPT !.isSpeaking = TRUE,
             !.nextStartTime = StartAt(s.nextStartTime, now) ]

\* line 141 with = for +=
Advance_Overwrite(cursor, d) == d

\* the cursor after a unit of duration d is scheduled (line 141)
Advance(cursor, d) == cursor + d

\* lines 132-142 with source.start(output.currentTime): immediate playback
ScheduleUnit_Immediate(s, h, now) ==
  LET id == Len(s.units) + 1
      u  == [ startAt |-> now,
              dur     |-> h.audio,
              endAt   |-> now + h.audio,
              ctx     |-> h.ctx,
              state   |-> "scheduled" ]
  IN  [ s EXCEPT !.units = Append(s.units, u),
                 !.nextStartTime = s.nextStartTime + h.audio,
                 !.sourcesRef = s.sourcesRef \cup { id } ]

\* lines 132-142: the part of the audio branch after the await; h is the
\* suspended invocation, now the time of the output context it captured
ScheduleUnit(s, h, now) ==
  LET id == Len(s.units) + 1
      u  == [ startAt |-> s.nextStartTime,
              dur     |-> h.audio,
              endAt   |-> Max(s.nextStartTime, now) + h.audio,
              ctx     |-> h.ctx,
              state   |-> "scheduled" ]
  IN  [ s EXCEPT !.units = Append(s.units, u),
                 !.nextStartTime = Advance(s.nextStartTime, h.audio),
                 !.sourcesRef = s.sourcesRef \cup { id } ]

\* lines 146-148
Transcribe(s, m) ==
  IF m.text THEN [ s EXCEPT !.transcript = s.transcript + 1 ] ELSE s

\* lines 151-154
Interrupt(s, m) ==
  IF m.interrupted THEN [ StopAllAudio(s) EXCEPT !.isSpeaking = FALSE ] ELSE s

\* lines 145-154, ending the handler
Rest(s, m) ==
  LET s2 == Interrupt(Transcribe(s, m), m)
  IN  /\ Commit(s2)
      /\ lastEnd' = IF m.interrupted THEN -1
                    ELSE IF Len(s2.units) > Len(units)
                         THEN LET u == s2.units[Len(s2.units)] IN u.startAt + u.dur
                         ELSE lastEnd

\* the content received so far, and the content message m adds to it
Received ==
  Len(units) + Len(pending) + transcript
    + Cardinality({ j \in DOMAIN pending : pending[j].text })

Content(m) ==
  (IF m.audio # 0 /\ m.decodable THEN 1 ELSE 0) + (IF m.text THEN 1 ELSE 0)

\* a session delivers a message: onmessage up to its await, or to its end
\* when it does not await (lines 122-155)
Handle(i, m) ==
  /\ NoMicrotask
  /\ ws[i] \in { "open", "closing" }
  /\ IF m.audio # 0 /\ audioContexts # 0
     THEN /\ Commit(BeginAudio(App, clock))
          /\ pending' =
               IF m.decodable
               THEN Append(pending,
                           [ audio |-> m.audio, text |-> m.text,
                             interrupted |-> m.interrupted,
                             ctx |-> audioContexts,
                             before |-> nextStartTime, now |-> clock ])
               ELSE pending
          /\ lastEnd' = IF m.decodable THEN lastEnd ELSE -1
     ELSE /\ Rest(App, m)
          /\ pending' = pending
  /\ UNCHANGED << replacedClock, sent, codec, audioContexts, sessionRef, clock, pc, ws, capture, teardown >>

\* onmessage, for as long as the content received stays within MaxContent
OnMessage(i, m) ==
  /\ Received + Content(m) <= MaxContent
  /\ Handle(i, m)

\* the oldest suspended onmessage invocation resumes after
\* `await decodeAudioData` and runs to its end (lines 130-155)
OnMessageResume ==
  /\ pending # << >>
  /\ LET h == Head(pending)
     IN  /\ Rest(ScheduleUnit(App, h, ContextTime(h.ctx)), h)
         /\ pending' = Tail(pending)
  /\ UNCHANGED << replacedClock, sent, codec, audioContexts, sessionRef, clock, pc, ws, capture, teardown >>

\* ------------------------------------------------------ 'ended' listener
\* a source node whose 'ended' event has been dispatched plays no more
Released == [ startAt |-> 0, dur |-> 0, endAt |-> 0, ctx |-> 0, state |-> "ended" ]

\* the listener without the size check of line 137
EndedListener_AlwaysIdle(s, u) ==
  [ s EXCEPT !.sourcesRef = s.sourcesRef \ { u },
             !.units[u] = Released,
             !.isSpeaking = FALSE ]

\* the listener of lines 135-138, run for unit u
EndedListener(s, u) ==
  LET s1 == [ s EXCEPT !.sourcesRef = s.sourcesRef \ { u },
                       !.units[u] = Released ]
  IN  IF s1.sourcesRef = {} THEN [ s1 EXCEPT !.isSpeaking = FALSE ] ELSE s1

\* a unit's buffer has played to its end on its context's clock
PlayedOut(u) ==
  /\ units[u].state = "scheduled"
  /\ ContextTime(units[u].ctx) >= units[u].endAt

\* the 'ended' event of unit u is dispatched: it has played out, or
\* stopAllAudio has stopped it
Ended(u) ==
  /\ NoMicrotask
  /\ u \in DOMAIN units
  /\ PlayedOut(u) \/ units[u].state = "stopped"
  /\ Commit(EndedListener(App, u))
  /\ UNCHANGED << replacedClock, sent, codec, audioContexts, sessionRef, clock, pc, ws, capture, pending,
                  lastEnd, teardown >>

\* time advances by one tick, on the current output context and on every
\* replaced one
Tick ==
  /\ audioContexts # 0
  /\ clock' = clock + 1
  /\ replacedClock' = [ c \in Starts |->
                          IF replacedClock[c] >= 0 THEN replacedClock[c] + 1
                          ELSE replacedClock[c] ]
  /\ UNCHANGED << sent, codec, isConnected, isSpeaking, error, transcript, audioContexts,
                  sessionRef, nextStartTime, sourcesRef, units, pc, ws, capture,
                  pending, lastEnd, teardown >>

\* the clock, for as long as it stays within MaxClock
ClockAdvance ==
  /\ clock < MaxClock
  /\ Tick

\* onaudioprocess (lines 111-117): the script processor attached by onopen
\* delivers a block; once sessionPromise has resolved, the block is handed
\* to session.sendRealtimeInput.  Nothing detaches the processor.
CaptureTick(i) ==
  /\ NoMicrotask
  /\ capture[i]
  /\ pc[i] = "done"
  /\ sent[i] < MaxSent
  /\ sent' = [ sent EXCEPT ![i] = sent[i] + 1 ]
  /\ UNCHANGED << isConnected, isSpeaking, error, transcript, audioContexts,
                  sessionRef, nextStartTime, sourcesRef, units, clock, pc, ws,
                  capture, pending, lastEnd, teardown, replacedClock, codec >>

Next ==
  \/ ToggleConnection
  \/ \E i \in Starts : GetUserMediaResolved(i)
  \/ \E i \in Starts : GetUserMediaRejected(i)
  \/ \E i \in Starts : SetupThrows(i)
  \/ \E i \in Starts : SessionRejected(i)
  \/ \E i \in Starts : SessionResolved(i)
  \/ \E i \in Starts : OnOpen(i)
  \/ \E i \in Starts : OnError(i)
  \/ \E i \in Starts : OnClose(i)
  \/ \E i \in Starts, m \in Messages : OnMessage(i, m)
  \/ OnMessageResume
  \/ \E u \in 1..MaxContent : Ended(u)
  \/ ClockAdvance
  \/ \E i \in Starts : CaptureTick(i)

Spec == Init /\ [][Next]_vars

\* One session: the program with a single click on "Initiate Link"; any
\* number of sessions and of overlapping starts is SpecController's subject.
NextOneSession ==
  \/ ToggleConnectionStop
  \/ UsedStarts = {} /\ ToggleConnectionStart
  \/ \E i \in Starts : GetUserMediaResolved(i)
  \/ \E i \in Starts : GetUserMediaRejected(i)
  \/ \E i \in Starts : SetupThrows(i)
  \/ \E i \in Starts : SessionRejected(i)
  \/ \E i \in Starts : SessionResolved(i)
  \/ \E i \in Starts : OnOpen(i)
  \/ \E i \in Starts : OnError(i)
  \/ \E i \in Starts : OnClose(i)
  \/ \E i \in Starts, m \in Messages : OnMessage(i, m)
  \/ OnMessageResume
  \/ \E u \in 1..MaxContent : Ended(u)
  \/ ClockAdvance

SpecOneSession == Init /\ [][NextOneSession]_vars

\* One session under the event loop's scheduling: a suspended onmessage
\* invocation resumes, a due 'ended' event is dispatched, the clock runs.
SpecOneSessionFair ==
  /\ SpecOneSession
  /\ WF_vars(OnMessageResume)
  /\ \A u \in 1..MaxContent : WF_vars(Ended(u))
  /\ WF_vars(ClockAdvance)

\* The controller: the handlers that write the connection state.  The
\* playback handlers left out (onmessage, the 'ended' listener, the clock)
\* write none of isConnected, error, sessionRef, audioContexts, pc, ws,
\* capture.
NextController ==
  \/ ToggleConnection
  \/ \E i \in Starts : GetUserMediaResolved(i)
  \/ \E i \in Starts : GetUserMediaRejected(i)
  \/ \E i \in Starts : SetupThrows(i)
  \/ \E i \in Starts : SessionRejected(i)
  \/ \E i \in Starts : SessionResolved(i)
  \/ \E i \in Starts : OnOpen(i)
  \/ \E i \in Starts : OnError(i)
  \/ \E i \in Starts : OnClose(i)

SpecController == Init /\ [][NextController]_vars

\* The controller together with the capture pipeline.
NextCapture ==
  \/ ToggleConnection
  \/ \E i \in Starts : GetUserMediaResolved(i)
  \/ \E i \in Starts : GetUserMediaRejected(i)
  \/ \E i \in Starts : SetupThrows(i)
  \/ \E i \in Starts : SessionRejected(i)
  \/ \E i \in Starts : SessionResolved(i)
  \/ \E i \in Starts : OnOpen(i)
  \/ \E i \in Starts : OnError(i)
  \/ \E i \in Starts : OnClose(i)
  \/ \E i \in Starts : CaptureTick(i)

SpecCapture == Init /\ [][NextCapture]_vars

\* ================================================== the helper functions
\* A byte is 0..255.  A base64 text is a sequence of symbols: 0..63 for the
\* alphabet and Pad for '='.  A 16-bit sample is -32768..32767.  A float
\* sample x is written as the integer x * 65536: every value the helpers
\* meet (a 16-bit sample / 32768, and the halves between two such values) is
\* one of these, and a Float32 holds it exactly.
Pad == 64

\* ToInt16 of ECMAScript, applied by the store into an Int16Array (line 72)
ToInt16(n) == ((n + 32768) % 65536) - 32768

\* truncation toward zero of n / 2
TruncHalf(n) == IF n >= 0 THEN n \div 2 ELSE -((-n) \div 2)

\* btoa without the last, partial group of its input
RECURSIVE Btoa_NoTail(_)
Btoa_NoTail(str) ==
  IF Len(str) < 3 THEN << >>
  ELSE << str[1] \div 4,
          (str[1] % 4) * 16 + str[2] \div 16,
          (str[2] % 16) * 4 + str[3] \div 64,
          str[3] % 64 >> \o Btoa_NoTail(SubSeq(str, 4, Len(str)))

\* btoa (line 39) of a binary string, given as its code units
RECURSIVE Btoa(_)
Btoa(str) ==
  IF Len(str) = 0 THEN << >>
  ELSE IF Len(str) = 1 THEN << str[1] \div 4, (str[1] % 4) * 16, Pad, Pad >>
  ELSE IF Len(str) = 2
       THEN << str[1] \div 4,
               (str[1] % 4) * 16 + str[2] \div 16,
               (str[2] % 16) * 4,
               Pad >>
  ELSE << str[1] \div 4,
          (str[1] % 4) * 16 + str[2] \div 16,
          (str[2] % 16) * 4 + str[3] \div 64,
          str[3] % 64 >> \o Btoa(SubSeq(str, 4, Len(str)))

\* atob (line 6) of a padded base64 text: the binary string, as code units
RECURSIVE Atob(_)
Atob(text) ==
  IF Len(text) < 4 THEN << >>
  ELSE LET a == text[1]
           b == text[2]
           c == text[3]
           d == text[4]
           rest == Atob(SubSeq(text, 5, Len(text)))
       IN  IF c = Pad THEN << a * 4 + b \div 16 >> \o rest
           ELSE IF d = Pad
                THEN << a * 4 + b \div 16, (b % 16) * 16 + c \div 4 >> \o rest
           ELSE << a * 4 + b \div 16, (b % 16) * 16 + c \div 4,
                   (c % 4) * 64 + d >> \o rest

\* String.fromCharCode(byte) and charCodeAt(i): the code unit of a byte
FromCharCode(byte) == byte
CharCodeAt(unit) == unit % 256

\* encode (lines 33-40)
Encode(bytes) == Btoa([ i \in DOMAIN bytes |-> FromCharCode(bytes[i]) ])

\* decode (lines 5-13)
Decode(text) == LET str == Atob(text) IN [ i \in DOMAIN str |-> CharCodeAt(str[i]) ]

\* new Int16Array(data.buffer) (line 21): the little-endian 16-bit samples
Int16View(data) ==
  [ k \in 1..(Len(data) \div 2) |-> ToInt16(data[2 * k - 1] + 256 * data[2 * k]) ]

\* new Uint8Array(int16.buffer) (line 75): the bytes of 16-bit samples
Uint8View(int16) ==
  [ j \in 1..(2 * Len(int16)) |->
      LET u == (int16[(j + 1) \div 2] + 65536) % 65536
      IN  IF j % 2 = 1 THEN u % 256 ELSE u \div 256 ]

\* a 16-bit sample / 32768.0 (line 27), as a float sample
Normalize(v) == 2 * v

\* decodeAudioData (lines 15-31).  The Int16Array constructor throws a
\* RangeError on a buffer of odd length; createBuffer takes the integer part
\* of the frame count and throws NotSupportedError when that is 0.
DecodeAudioData(data, sampleRate, numChannels) ==
  IF Len(data) % 2 # 0 THEN [ err |-> "RangeError" ]
  ELSE LET dataInt16 == Int16View(data)
           frames == Len(dataInt16) \div numChannels
       IN  IF frames = 0 THEN [ err |-> "NotSupportedError" ]
           ELSE [ err |-> "",
                  length |-> frames,
                  sampleRate |-> sampleRate,
                  channels |->
                    [ ch \in 1..numChannels |->
                        [ i \in 1..frames |->
                            Normalize(dataInt16[(i - 1) * numChannels + ch]) ] ] ]

\* int16[i] = data[i] * 32768 (line 72): the product, truncated toward zero,
\* modulo 2^16
StoreSample(x) == ToInt16(TruncHalf(x))

\* the Int16Array createBlob fills (lines 69-73)
FloatToPcm16(samples) == [ i \in DOMAIN samples |-> StoreSample(samples[i]) ]

\* createBlob (lines 68-78)
CreateBlob(samples) ==
  [ data |-> Encode(Uint8View(FloatToPcm16(samples))),
    mimeType |-> "audio/pcm;rate=16000" ]

\* ---------------------------------------------- the helpers on their own
RECURSIVE SeqsUpTo(_, _)
SeqsUpTo(S, n) ==
  IF n = 0 THEN { << >> }
  ELSE LET shorter == SeqsUpTo(S, n - 1)
       IN  shorter \cup { Append(q, x) : q \in { r \in shorter : Len(r) = n - 1 }, x \in S }

ByteVals   == { 0, 1, 127, 128, 255 }
ByteSeqs   == SeqsUpTo(ByteVals, MaxBytes) \cup { << b >> : b \in 0..255 }
FloatVals  == { c * 65536 + d : c \in -2..2, d \in -MaxOff..MaxOff }
FloatSeqs  == SeqsUpTo(FloatVals, MaxSamples)
Rates      == { 16000, 24000 }
Channels   == { 1, 2 }

program == << isConnected, isSpeaking, error, transcript, audioContexts,
              sessionRef, nextStartTime, sourcesRef, units, clock, pc, ws,
              capture, pending, lastEnd, teardown, replacedClock, sent >>

InitCodec ==
  /\ isConnected = FALSE
  /\ isSpeaking = FALSE
  /\ error = NoError
  /\ transcript = 0
  /\ audioContexts = 0
  /\ sessionRef = 0
  /\ nextStartTime = 0
  /\ sourcesRef = {}
  /\ units = << >>
  /\ clock = 0
  /\ pc = [ i \in Starts |-> "unused" ]
  /\ ws = [ i \in Starts |-> "none" ]
  /\ capture = [ i \in Starts |-> FALSE ]
  /\ pending = << >>
  /\ lastEnd = -1
  /\ teardown = "none"
  /\ replacedClock = [ i \in Starts |-> -1 ]
  /\ sent = [ i \in Starts |-> 0 ]
  /\ codec \in
       { [ fn |-> "encode", bytes |-> b, stage |-> 0 ] : b \in ByteSeqs }
       \cup { [ fn |-> "decodeAudioData", bytes |-> b, sampleRate |-> r,
                numChannels |-> n, stage |-> 0 ] :
                b \in SeqsUpTo(ByteVals, MaxBytes), r \in Rates, n \in Channels }
       \cup { [ fn |-> "createBlob", samples |-> x, stage |-> 0 ] : x \in FloatSeqs }

\* encode(bytes) returns
EncodeCall ==
  /\ codec.fn = "encode" /\ codec.stage = 0
  /\ codec' = [ fn |-> "encode", bytes |-> codec.bytes, stage |-> 1,
                text |-> Encode(codec.bytes) ]
  /\ UNCHANGED program

\* decode() of the text encode returned
DecodeCall ==
  /\ codec.fn = "encode" /\ codec.stage = 1
  /\ codec' = [ fn |-> "encode", bytes |-> codec.bytes, stage |-> 2,
                text |-> codec.text, back |-> Decode(codec.text) ]
  /\ UNCHANGED program

\* decodeAudioData(bytes, ctx, sampleRate, numChannels) returns or throws
DecodeAudioDataCall ==
  /\ codec.fn = "decodeAudioData" /\ codec.stage = 0
  /\ codec' = [ fn |-> "decodeAudioData", bytes |-> codec.bytes,
                sampleRate |-> codec.sampleRate,
                numChannels |-> codec.numChannels, stage |-> 1,
                buffer |-> DecodeAudioData(codec.bytes, codec.sampleRate,
                                           codec.numChannels) ]
  /\ UNCHANGED program

\* createBlob() of the channel data of the mono buffer decodeAudioData
\* returned, and decode() of its data
ReencodeCall ==
  /\ codec.fn = "decodeAudioData" /\ codec.stage = 1
  /\ codec.buffer.err = "" /\ codec.numChannels = 1
  /\ codec' = [ fn |-> "decodeAudioData", bytes |-> codec.bytes,
                sampleRate |-> codec.sampleRate,
                numChannels |-> codec.numChannels, stage |-> 2,
                buffer |-> codec.buffer,
                pcm |-> FloatToPcm16(codec.buffer.channels[1]),
                back |-> Decode(CreateBlob(codec.buffer.channels[1]).data) ]
  /\ UNCHANGED program

\* createBlob(samples) returns
CreateBlobCall ==
  /\ codec.fn = "createBlob" /\ codec.stage = 0
  /\ codec' = [ fn |-> "createBlob", samples |-> codec.samples, stage |-> 1,
                pcm |-> FloatToPcm16(codec.samples),
                blob |-> CreateBlob(codec.samples) ]
  /\ UNCHANGED program

NextCodec ==
  \/ EncodeCall
  \/ DecodeCall
  \/ DecodeAudioDataCall
  \/ ReencodeCall
  \/ CreateBlobCall

SpecCodec == InitCodec /\ [][NextCodec]_vars

\* ======================================================== the claims
\* steps in which stopAllAudio runs through the interruption flag
InterruptStep ==
  \/ \E i \in Starts, m \in Messages :
       m.audio = 0 /\ m.interrupted /\ OnMessage(i, m)
  \/ pending # << >> /\ Head(pending).interrupted /\ OnMessageResume

\* steps in which stopAllAudio runs
StopAllStep == ToggleConnectionStop \/ InterruptStep

\* steps in which an audio chunk is received (onmessage up to its await)
AudioStep == \E i \in Starts, m \in Messages : m.audio # 0 /\ OnMessage(i, m)

\* C1 as the spec states it: in every step the cursor nextStartTime is no
\* smaller than before, and in every state it is >= the output clock.
C1_CursorMonotoneAboveClock ==
  /\ [][nextStartTime' >= nextStartTime]_vars
  /\ [](nextStartTime >= clock)

\* C1, amended: the cursor decreases only when stopAllAudio resets it to 0,
\* and it is >= the output clock right after an audio chunk is received
\* (line 129); between chunks the clock runs past it.
C1_CursorAmended ==
  [][ /\ nextStartTime' < nextStartTime => StopAllStep /\ nextStartTime' = 0
      /\ AudioStep => nextStartTime' >= clock' ]_vars

\* C1's case: a chunk received after the clock has passed the cursor
C1_Witness ==
  /\ pending # << >>
  /\ clock > 0
  /\ Head(pending).before < Head(pending).now
  /\ nextStartTime = clock

\* C2: stopAllAudio stops every active unit, empties the active set and sets
\* the cursor to 0, on the interruption path and on manual stop, and changes
\* neither isConnected, error nor transcript.
C2_StopAll ==
  /\ [] LET s == StopAllAudio(App)
        IN  /\ s.sourcesRef = {}
            /\ s.nextStartTime = 0
            /\ \A u \in DOMAIN s.units : s.units[u].state # "scheduled"
            /\ s.isConnected = isConnected
            /\ s.error = error
            /\ s.transcript = transcript
  /\ [][ StopAllStep =>
           /\ sourcesRef' = {}
           /\ nextStartTime' = 0
           /\ \A u \in DOMAIN units' : units'[u].state # "scheduled"
           /\ \A u \in sourcesRef : units'[u].state = "stopped"
           /\ error' = error ]_vars
  /\ [][ ToggleConnectionStop => transcript' = transcript ]_vars
  /\ [][ InterruptStep => isConnected' = isConnected ]_vars

\* C2's case: manual stop has stopped a scheduled unit, with a transcript
C2_Witness ==
  /\ teardown = "stop"
  /\ \E u \in DOMAIN units : units[u].state = "stopped"
  /\ transcript > 0
  /\ sourcesRef = {}
  /\ nextStartTime = 0

\* C3: once stopAllAudio has stopped a unit, that unit's 'ended' listener
\* never runs.
C3_NoEndedAfterStopAll ==
  [][ \A u \in DOMAIN units :
        units[u].state = "stopped" => units'[u].state = "stopped" ]_vars

\* C4: manual stop and the close callback leave the active set empty, and
\* once the session is closed this way no unit is added to the active set
\* until the next manual start.
C4_ClosedHaltsPlayback ==
  [][ /\ (ToggleConnectionStop \/ \E i \in Starts : OnClose(i)) => sourcesRef' = {}
      /\ teardown \in { "stop", "close" } => sourcesRef' \subseteq sourcesRef ]_vars

\* C5: a message delivered while isConnected is false adds no unit, does not
\* move the cursor and changes neither isSpeaking nor transcript.
C5_MessagesOnlyWhileConnected ==
  [][ (~isConnected /\ \E i \in Starts, m \in Messages : OnMessage(i, m)) =>
        /\ sourcesRef' = sourcesRef
        /\ nextStartTime' = nextStartTime
        /\ isSpeaking' = isSpeaking
        /\ transcript' = transcript ]_vars

\* steps in which a received audio chunk is scheduled (the part of onmessage
\* after the await), the message not carrying the interruption flag
CallCompletes ==
  /\ pending # << >>
  /\ ~Head(pending).interrupted
  /\ OnMessageResume

\* C6: the cursor after an onAudioReceived call equals max(cursor before the
\* call, output clock at the call) + the chunk's duration, and neither half
\* of the call lowers the cursor.
C6_CursorAfterCall ==
  /\ [][ CallCompletes =>
           LET h == Head(pending)
           IN  /\ nextStartTime' = Max(h.before, h.now) + h.audio
               /\ nextStartTime' >= nextStartTime
               /\ lastEnd # -1 => nextStartTime' >= lastEnd ]_vars
  /\ [][ AudioStep => nextStartTime' >= nextStartTime ]_vars

\* C6's case: two consecutive calls, the first after the clock passed the cursor
C6_Witness ==
  /\ Len(units) = 2
  /\ sourcesRef = { 1, 2 }
  /\ units[1].startAt = 1
  /\ units[1].dur = 2
  /\ nextStartTime = units[1].startAt + units[1].dur + units[2].dur

\* C7: for received audio chunks with no stopAllAudio since chunk i was
\* scheduled, the start time scheduled for chunk i+1 is the later of the
\* scheduled end of chunk i and the output clock read when chunk i+1 was
\* handled, hence equal to that end (no gap) whenever that clock was <= the
\* cursor, and unit i+1 does not start before unit i has played to its end
\* (no overlap).
C7_Gapless ==
  [][ (pending # << >> /\ lastEnd # -1 /\ OnMessageResume) =>
        LET h == Head(pending)
            u == units'[Len(units')]
            p == units[Len(units)]
        IN  /\ h.before = lastEnd
            /\ u.startAt = Max(lastEnd, h.now)
            /\ h.now <= h.before => u.startAt = lastEnd
            /\ p.state = "scheduled" => u.startAt >= p.endAt ]_vars

\* C8: isConnected becomes true only in an onopen callback, and not after a
\* stop, close or error that no manual start has followed.
C8_ConnectedOnlyAfterStart ==
  [][ (~isConnected /\ isConnected') =>
        /\ \E i \in Starts : OnOpen(i)
        /\ teardown = "none" ]_vars

\* C9: the error callback leaves isConnected false and a non-empty error
\* message, and after it no session is opened and the controller does not
\* connect until the user has started again.
C9_ErrorState ==
  /\ [][ \A i \in Starts : OnError(i) =>
           /\ ~isConnected'
           /\ error' \notin { NoError, "" } ]_vars
  /\ [][ teardown = "error" =>
           /\ \A j \in Starts : ws[j] = "none" => ws'[j] = "none"
           /\ ~isConnected' ]_vars

\* start i is the only one that can have set isConnected
OnlyStart(i) ==
  \A j \in Starts \ { i } : ws[j] \in { "none", "errored", "closed" }

\* C10: when getUserMedia rejects, start() sets a non-empty error message
\* and does nothing else: no audio context, no session, no capture pipeline
\* (none exists for a start() that still awaits getUserMedia, and the
\* rejection makes none), isConnected not set (it is false unless another
\* start() connected).
C10_MicDenied ==
  /\ [][ \A i \in Starts : GetUserMediaRejected(i) =>
           /\ error' \notin { NoError, "" }
           /\ audioContexts' = audioContexts
           /\ sessionRef' = sessionRef
           /\ ws' = ws
           /\ capture' = capture
           /\ isConnected' = isConnected
           /\ OnlyStart(i) => ~isConnected' ]_vars
  /\ [] \A i \in Starts :
          pc[i] = "getUserMedia" =>
            /\ ws[i] = "none"
            /\ ~capture[i]
            /\ audioContexts # i
            /\ sessionRef # i

\* C10's case: the only start() has failed on the microphone
C10_Witness ==
  \E i \in Starts :
    /\ pc[i] = "failed"
    /\ ws[i] = "none"
    /\ OnlyStart(i)
    /\ error \notin { NoError, "" }
    /\ audioContexts = 0
    /\ sessionRef = 0
    /\ ~isConnected

\* C11: two sequential 1-tick chunks received at output clock 0 on a fresh
\* cursor are scheduled at 0 and at 1, and with two chunks received the
\* active set never holds more than two units (both, until the first ends).
C11_TwoChunks ==
  /\ [][ (CallCompletes /\ Head(pending).now = 0 /\ Head(pending).audio = 1) =>
           /\ (Len(units) = 0 /\ Head(pending).before = 0) =>
                 units'[1].startAt = 0
           /\ (Len(units) = 1 /\ lastEnd = 1) =>
                 /\ units'[2].startAt = 1
                 /\ sourcesRef' = sourcesRef \cup { 2 } ]_vars
  /\ [] ( /\ sourcesRef \subseteq DOMAIN units
          /\ Len(units) <= 2 => Cardinality(sourcesRef) <= 2 )

\* C11's case: both chunks scheduled at clock 0, the first not yet ended
C11_Witness ==
  /\ clock = 0
  /\ Len(units) = 2
  /\ pending = << >>
  /\ sourcesRef = { 1, 2 }
  /\ units[1].startAt = 0 /\ units[1].dur = 1
  /\ units[2].startAt = 1 /\ units[2].dur = 1

\* C12: for every byte sequence, of odd length or with a sample count that
\* is not a multiple of the channel count included, decodeAudioData does not
\* fail and returns a buffer of floor(byte-length / 2 / channels) frames.
C12_FrameCount ==
  (codec.fn = "decodeAudioData" /\ codec.stage >= 1) =>
    /\ codec.buffer.err = ""
    /\ codec.buffer.length = (Len(codec.bytes) \div 2) \div codec.numChannels
    /\ \A ch \in 1..codec.numChannels :
         Len(codec.buffer.channels[ch]) = codec.buffer.length

\* C13: createBlob maps every sample x of [-1, 1] to trunc(x * 32768), and a
\* result that differs from trunc(x * 32768) (a wrap modulo 2^16) comes only
\* from a sample outside [-1, 1].
C13_NoWrapInRange ==
  (codec.fn = "createBlob" /\ codec.stage = 1) =>
    \A i \in DOMAIN codec.samples :
      LET x == codec.samples[i]
      IN  /\ (-65536 <= x /\ x <= 65536) => codec.pcm[i] = TruncHalf(x)
          /\ codec.pcm[i] # TruncHalf(x) =>
                /\ x < -65536 \/ x > 65536
                /\ (codec.pcm[i] - TruncHalf(x)) % 65536 = 0

\* C14: decode(encode(B)) = B for every byte sequence B.
C14_Base64RoundTrip ==
  /\ (codec.fn = "encode" /\ codec.stage = 2) => codec.back = codec.bytes
  /\ (codec.fn = "encode" /\ codec.stage >= 1) =>
        /\ Len(codec.text) = 4 * ((Len(codec.bytes) + 2) \div 3)
        /\ Decode(codec.text) = codec.bytes

\* C14's case: a sequence that needs padding and holds the bytes 0 and 255
C14_Witness ==
  /\ codec.fn = "encode" /\ codec.stage = 2
  /\ codec.bytes = << 255, 0, 128, 255 >>
  /\ codec.text[Len(codec.text)] = Pad
  /\ codec.back = codec.bytes

\* C15: for every sequence S of mono PCM16 samples, the empty one included,
\* at 16000 Hz and at 24000 Hz, pcm16ToFloat(S) returns a buffer and
\* floatToPcm16 of it is S: the 16-bit samples createBlob stores for the
\* buffer decodeAudioData returned are S, and so are its bytes.
C15_PcmRoundTrip ==
  ( /\ codec.fn = "decodeAudioData"
    /\ codec.numChannels = 1
    /\ Len(codec.bytes) % 2 = 0
    /\ codec.stage >= 1 ) =>
      /\ codec.buffer.err = ""
      /\ codec.stage = 2 =>
            /\ codec.pcm = Int16View(codec.bytes)
            /\ codec.back = codec.bytes

\* C16: receiving an audio chunk sets isSpeaking; the 'ended' listener of a
\* unit removes that unit and no other from the active set, sets isSpeaking
\* to false when the set is empty after the removal and leaves it as it was
\* otherwise, and does not move the cursor.
C16_SpeakingFlag ==
  /\ [][ AudioStep => isSpeaking' ]_vars
  /\ [][ \A u \in 1..MaxContent : Ended(u) =>
           /\ sourcesRef' = sourcesRef \ { u }
           /\ sourcesRef' = {} => ~isSpeaking'
           /\ sourcesRef' # {} => isSpeaking' = isSpeaking
           /\ nextStartTime' = nextStartTime ]_vars

\* C16's case: the first of two units has ended and the second still plays
C16_Witness ==
  /\ Len(units) = 2
  /\ units[1] = Released
  /\ units[2].state = "scheduled"
  /\ sourcesRef = { 2 }
  /\ isSpeaking
  /\ nextStartTime > 0

\* C17: whenever the active set is non-empty, isSpeaking is true.
C17_SpeakingWhilePlaying == sourcesRef # {} => isSpeaking

\* C17's case: after an interruption force-stopped the first unit, whose
\* 'ended' event is still due, a second unit plays
C17_Witness ==
  /\ Len(units) = 2
  /\ units[1].state = "stopped"
  /\ units[2].state = "scheduled"
  /\ sourcesRef = { 2 }
  /\ pending = << >>
  /\ isSpeaking

\* every unit started so far has had its 'ended' event, and no onmessage
\* invocation is suspended
AllEnded ==
  /\ pending = << >>
  /\ \A u \in DOMAIN units : units[u].state = "ended"

\* C18: if from some point on no audio chunk arrives and every started unit
\* has ended, then isSpeaking eventually becomes false and stays false.
C18_EventuallySilent ==
  (<>[][~AudioStep]_vars /\ <>[]AllEnded) => <>[]~isSpeaking

\* the sessions whose transport is connecting, open or closing
LiveSessions == { i \in Starts : ws[i] \in { "connecting", "open", "closing" } }

\* C19: at most one session and at most one capture pipeline exist at a
\* time, and a manual stop leaves no session open.
C19_SingleSession ==
  /\ [] ( /\ Cardinality(LiveSessions) <= 1
          /\ Cardinality({ i \in Starts : capture[i] }) <= 1 )
  /\ [][ ToggleConnectionStop => \A i \in Starts : ws'[i] # "open" ]_vars

\* C20: a capture tick hands a block to session.sendRealtimeInput only
\* while isConnected is true and its session is open.
C20_CaptureOnlyWhileConnected ==
  [][ \A i \in Starts : CaptureTick(i) => isConnected /\ ws[i] = "open" ]_vars

====
